---- MODULE Spec2Model ----
(***************************************************************************)
(* Model of utils/aarch64_32_bit_el1_supported.c: main() opens /dev/kvm,   *)
(* asks KVM_CHECK_EXTENSION for KVM_CAP_ARM_EL1_32BIT, closes the handle   *)
(* and returns the inverted answer.  Every library call of main is one     *)
(* action; the results of the calls (the operating system's answers) are   *)
(* the inputs, drawn with \E from the sets below.                          *)
(***************************************************************************)
EXTENDS Integers, Sequences, FiniteSets

\* ---------------------------------------------------------------- bounds
\* Largest errno value a failing call is given in the model (the error
\* numbers of Linux end at 133).
MaxErrno == 133
\* Largest descriptor number a successful open() is given in the model.
MaxFd == 3
\* ioctl() results range over -RetBound..RetBound.
RetBound == 2

\* ------------------------------------------------- environment (libc, OS)
\* Values an `int` local holds before its first assignment (line 10).
IndeterminateInts == {-1, 0, 1}

\* open() returns the lowest free descriptor; 0 when stdin is closed.
OpenFds == 0..MaxFd

\* errno values of a failed system call.
SyscallErrnos == 1..MaxErrno

\* perror() reports through dup()/fdopen()/write() on descriptor 2 and does
\* not restore errno.  What these calls leave depends on what descriptor 2
\* is (EBADF when closed, EINVAL from fdopen "w+" on a write-only
\* descriptor, ENOSPC, EAGAIN, EPIPE, ... whatever the driver behind the
\* descriptor answers), so it is any errno value of a failed call.
PerrorErrnos == SyscallErrnos

\* ioctl() results: negative on failure, otherwise the capability value.
IoctlResults == (0 - RetBound)..RetBound

\* close() results.
CloseResults == {-1, 0}

\* errno values of a failed close(): EINTR, EIO, EBADF.
CloseErrnos == {4, 5, 9}

\* The diagnostic texts handed to perror().
MsgOpen == "Failed to open /dev/kvm"

MsgQuery == "Error checking /dev/kvm for 32-bit EL1 support"

\* ------------------------------------------------------------------ state
VARIABLES
    pc,         \* position in main; "done" = returned, "killed" = the
                \* process was killed by a signal
    fd,         \* local `fd`
    ret,        \* local `ret`
    errno,      \* the thread's errno
    status,     \* value returned by main (meaningful when pc = "done")
    perrorCalls,\* sequence of messages given to perror()
    wr,         \* perror()'s write: "none", "writing", or "blocked" (asleep
                \* on a full pipe or socket, or stopped by SIGTTOU)
    stderr,     \* what reached standard error: a sequence of entries
                \* <<message, "all">> or <<message, "part">>
    calls,      \* sequence of system calls issued so far
    handleOpen, \* TRUE while the descriptor opened by main is open
    openErrno,  \* history: errno as the failed open() left it
    ioctlRes,   \* history: raw result of ioctl()
    closeRes    \* history: result of close()

vars == <<pc, fd, ret, errno, status, perrorCalls, wr, stderr, calls,
          handleOpen, openErrno, ioctlRes, closeRes>>

\* ------------------------------------------------------- pure expressions
\* line 13: if (fd < 0)
\* variant: `if (!fd)`
OpenFailed_notfd(f) == f = 0
OpenFailed(f) == f < 0

\* line 15: return -errno;
NegErrno(e) == 0 - e

\* line 19: if (ret < 0)
QueryFailed(r) == r < 0

\* line 21: ret = 0;
NormalizedRet(r) == 0

\* line 30: return !ret;
\* variants: `return ret;`, `return ~ret;`, `return ret != 1;`
Invert_none(r) == r
Invert_bitwise(r) == (0 - r) - 1
Invert_ne1(r) == IF r = 1 THEN 0 ELSE 1
Invert(r) == IF r = 0 THEN 1 ELSE 0

\* The status the parent process observes: the low 8 bits of main's value.
ObservedStatus(s) == s % 256

\* ------------------------------------------------------------------- Init
Init ==
    /\ pc = "open"
    /\ fd \in IndeterminateInts
    /\ ret \in IndeterminateInts
    /\ errno = 0
    /\ status = 0
    /\ perrorCalls = <<>>
    /\ wr = "none"
    /\ stderr = <<>>
    /\ calls = <<>>
    /\ handleOpen = FALSE
    /\ openErrno = 0
    /\ ioctlRes = 0
    /\ closeRes = 0

\* ---------------------------------------------------------------- actions
\* line 12: fd = open("/dev/kvm", O_RDWR);  -- succeeds
OpenSucceeds ==
    /\ pc = "open"
    /\ \E f \in OpenFds : fd' = f
    /\ handleOpen' = TRUE
    /\ calls' = Append(calls, "open")
    /\ pc' = "chk_fd"
    /\ UNCHANGED <<ret, errno, status, perrorCalls, wr, stderr, openErrno,
                   ioctlRes, closeRes>>

\* line 12: fd = open("/dev/kvm", O_RDWR);  -- fails with errno e
OpenFails ==
    /\ pc = "open"
    /\ fd' = -1
    /\ \E e \in SyscallErrnos : errno' = e /\ openErrno' = e
    /\ calls' = Append(calls, "open")
    /\ pc' = "chk_fd"
    /\ UNCHANGED <<ret, status, perrorCalls, wr, stderr, handleOpen, ioctlRes,
                   closeRes>>

\* lines 13-14: if (fd < 0) { perror("Failed to open /dev/kvm");
\* The call is entered: perror() prepares its stream (dup, fdopen), which may
\* already replace errno, and starts to write the message.
OpenFailPerror ==
    /\ pc = "chk_fd"
    /\ OpenFailed(fd)
    /\ perrorCalls' = Append(perrorCalls, MsgOpen)
    /\ \E e \in {errno} \cup PerrorErrnos : errno' = e
    /\ wr' = "writing"
    /\ pc' = "perror_open"
    /\ UNCHANGED <<fd, ret, status, stderr, calls, handleOpen, openErrno,
                   ioctlRes, closeRes>>

\* line 15: return -errno; }
OpenFailReturn ==
    /\ pc = "ret_errno"
    /\ status' = NegErrno(errno)
    /\ pc' = "done"
    /\ UNCHANGED <<fd, ret, errno, perrorCalls, wr, stderr, calls, handleOpen,
                   openErrno, ioctlRes, closeRes>>

\* line 18: ret = ioctl(fd, KVM_CHECK_EXTENSION, KVM_CAP_ARM_EL1_32BIT);
IoctlCall ==
    /\ pc = "chk_fd"
    /\ ~OpenFailed(fd)
    /\ \E r \in IoctlResults :
          /\ ret' = r
          /\ ioctlRes' = r
          /\ IF r < 0 THEN \E e \in SyscallErrnos : errno' = e
                      ELSE errno' = errno
    /\ calls' = Append(calls, "ioctl")
    /\ pc' = "chk_ret"
    /\ UNCHANGED <<fd, status, perrorCalls, wr, stderr, handleOpen, openErrno,
                   closeRes>>

\* lines 19-20: if (ret < 0) { perror("Error checking ...");
\* The call is entered, as at line 14.
QueryFailPerror ==
    /\ pc = "chk_ret"
    /\ QueryFailed(ret)
    /\ perrorCalls' = Append(perrorCalls, MsgQuery)
    /\ \E e \in {errno} \cup PerrorErrnos : errno' = e
    /\ wr' = "writing"
    /\ pc' = "perror_query"
    /\ UNCHANGED <<fd, ret, status, stderr, calls, handleOpen, openErrno,
                   ioctlRes, closeRes>>

\* main is inside perror() (line 14 or line 20).
InPerror == pc \in {"perror_open", "perror_query"}

\* Where main goes on when perror() returns: line 15 or line 21.
AfterPerror(p) == IF p = "perror_open" THEN "ret_errno" ELSE "reset_ret"

\* An entry of stderr: the whole message, or only a first part of it.
Whole(m) == <<m, "all">>

Part(m) == <<m, "part">>

\* The message perror() is writing.
CurMsg == perrorCalls[Len(perrorCalls)]

\* A first part of the message perror() is writing is already out.
PartOut == stderr # <<>> /\ stderr[Len(stderr)] = Part(CurMsg)

\* Standard error once the rest of the message is out.
Delivered ==
    IF PartOut THEN [stderr EXCEPT ![Len(stderr)] = Whole(CurMsg)]
               ELSE Append(stderr, Whole(CurMsg))

\* lines 14, 20: perror() writes the message with write() calls until all
\* of it is out.  Here a write (at once, or after it was blocked and the
\* reader drained the pipe or the job was continued) takes all that is
\* left: the whole message is on standard error and perror() returns.
PerrorWrites ==
    /\ InPerror
    /\ stderr' = Delivered
    /\ wr' = "none"
    /\ pc' = AfterPerror(pc)
    /\ UNCHANGED <<fd, ret, errno, status, perrorCalls, calls, handleOpen,
                   openErrno, ioctlRes, closeRes>>

\* lines 14, 20: a write succeeds but is short (file size limit, full pipe,
\* ...): a first part of the message is on standard error and perror()
\* stays inside, writing the rest.  Further short writes leave "part".
PerrorWritesPart ==
    /\ InPerror
    /\ ~PartOut
    /\ stderr' = Append(stderr, Part(CurMsg))
    /\ wr' = "writing"
    /\ UNCHANGED <<pc, fd, ret, errno, status, perrorCalls, calls, handleOpen,
                   openErrno, ioctlRes, closeRes>>

\* lines 14, 20: a write fails (EBADF, ENOSPC, EFBIG, EAGAIN, EIO, ...):
\* nothing more reaches standard error (nothing at all, or the part already
\* out), errno is the write's, perror() returns.
PerrorWriteFails ==
    /\ InPerror
    /\ \E e \in PerrorErrnos : errno' = e
    /\ wr' = "none"
    /\ pc' = AfterPerror(pc)
    /\ UNCHANGED <<fd, ret, status, perrorCalls, stderr, calls, handleOpen,
                   openErrno, ioctlRes, closeRes>>

\* lines 14, 20: a write raises a signal with default disposition (SIGPIPE:
\* the reader is gone; SIGXFSZ: file size limit) and the process is killed:
\* nothing more is written, main never returns, and the descriptors go away
\* with the process.
PerrorKilled ==
    /\ InPerror
    /\ wr' = "none"
    /\ handleOpen' = FALSE
    /\ pc' = "killed"
    /\ UNCHANGED <<fd, ret, errno, status, perrorCalls, stderr, calls,
                   openErrno, ioctlRes, closeRes>>

\* lines 14, 20: a write does not come back yet: it sleeps on a full pipe
\* or socket, or raised SIGTTOU and the process is stopped.  It is left
\* (by the four steps above) only if the reader takes data or goes away,
\* or the job is made foreground; nothing in the program makes that happen.
PerrorBlocks ==
    /\ InPerror
    /\ wr = "writing"
    /\ wr' = "blocked"
    /\ UNCHANGED <<pc, fd, ret, errno, status, perrorCalls, stderr, calls,
                   handleOpen, openErrno, ioctlRes, closeRes>>

\* line 21: ret = 0; }
QueryFailReset ==
    /\ pc = "reset_ret"
    /\ ret' = NormalizedRet(ret)
    /\ pc' = "close"
    /\ UNCHANGED <<fd, errno, status, perrorCalls, wr, stderr, calls,
                   handleOpen, openErrno, ioctlRes, closeRes>>

\* line 19: the condition is false, control falls through to line 24
QueryOk ==
    /\ pc = "chk_ret"
    /\ ~QueryFailed(ret)
    /\ pc' = "close"
    /\ UNCHANGED <<fd, ret, errno, status, perrorCalls, wr, stderr, calls,
                   handleOpen, openErrno, ioctlRes, closeRes>>

\* line 24: close(fd);  -- its result is discarded
CloseCall ==
    /\ pc = "close"
    /\ \E c \in CloseResults :
          /\ closeRes' = c
          /\ IF c < 0 THEN \E e \in CloseErrnos : errno' = e
                      ELSE errno' = errno
    /\ handleOpen' = FALSE
    /\ calls' = Append(calls, "close")
    /\ pc' = "ret"
    /\ UNCHANGED <<fd, ret, status, perrorCalls, wr, stderr, openErrno,
                   ioctlRes>>

\* line 30: return !ret;
Return ==
    /\ pc = "ret"
    /\ status' = Invert(ret)
    /\ pc' = "done"
    /\ UNCHANGED <<fd, ret, errno, perrorCalls, wr, stderr, calls, handleOpen,
                   openErrno, ioctlRes, closeRes>>

Next ==
    \/ OpenSucceeds
    \/ OpenFails
    \/ OpenFailPerror
    \/ OpenFailReturn
    \/ IoctlCall
    \/ QueryFailPerror
    \/ PerrorWrites
    \/ PerrorWritesPart
    \/ PerrorWriteFails
    \/ PerrorKilled
    \/ PerrorBlocks
    \/ QueryFailReset
    \/ QueryOk
    \/ CloseCall
    \/ Return

Spec == Init /\ [][Next]_vars

\* main runs on: open(), ioctl() and close() on /dev/kvm do not wait for
\* anybody and come back, and a write of perror() that is not blocked comes
\* back, fails or kills.  A blocked write waits for the reader of
\* standard error (or the owner of the terminal), so no step is promised
\* from it: the process may stay asleep or stopped for ever.
FairSpec == Spec /\ WF_vars(Next /\ wr # "blocked")

\* ------------------------------------------------------- history helpers
Count(seq, x) == Cardinality({i \in DOMAIN seq : seq[i] = x})

Done == pc = "done"

\* The process was killed by a signal raised inside perror().
Killed == pc = "killed"

\* The process has ended, by main returning or by a signal.
Terminated == Done \/ Killed

\* open() was called and failed / succeeded (as the system answered).
OpenDidFail == calls # <<>> /\ openErrno > 0

OpenDidSucceed == calls # <<>> /\ openErrno = 0

QueryIssued == Count(calls, "ioctl") > 0

CallOrder == <<"open", "ioctl", "close">>

\* ----------------------------------------------------------------- claims
\* C1: when the open succeeds and the capability query returns 1
\* (supported), main terminates with exit status 0.
C1_SupportedExitsZero ==
    (Done /\ OpenDidSucceed /\ QueryIssued /\ ioctlRes = 1) => status = 0

C1_Witness ==
    Done /\ OpenDidSucceed /\ QueryIssued /\ ioctlRes = 1 /\ status = 0

\* C2: when the open succeeds and the capability query returns 0
\* (unsupported), main terminates with exit status 1.
C2_UnsupportedExitsOne ==
    (Done /\ OpenDidSucceed /\ QueryIssued /\ ioctlRes = 0) => status = 1

C2_Witness ==
    Done /\ OpenDidSucceed /\ QueryIssued /\ ioctlRes = 0 /\ status = 1

\* C3: when the open fails with error code e > 0, main terminates with the
\* nonzero exit status -e, the negation of the code the failed open left,
\* although perror() runs between the open and the read of errno.
C3_ExitIsNegatedOpenErrno ==
    (Done /\ OpenDidFail) => (status = 0 - openErrno /\ status # 0)

\* C4: when the open fails, neither the capability query nor a close is
\* ever issued.
C4_NoQueryAfterFailedOpen ==
    OpenDidFail => (Count(calls, "ioctl") = 0 /\ Count(calls, "close") = 0)

C4_Witness ==
    Done /\ OpenDidFail /\ calls = <<"open">>

\* C5: in every execution where the open succeeds and the query returns a
\* negative value, the program goes on past the failed query: it closes the
\* handle and terminates with exit status 1, as for an unsupported
\* capability, never with a status made from errno.
C5_FailedQueryExitsOne ==
    (Terminated /\ OpenDidSucceed /\ QueryIssued /\ ioctlRes < 0) =>
        /\ Count(calls, "close") = 1
        /\ Done
        /\ status = 1
        /\ status # 0 - errno

\* C6: on every path where the open succeeded close is called on the handle
\* exactly once before the program terminates, whatever the query answered;
\* it is never closed twice.
C6_ClosedExactlyOnce ==
    /\ Count(calls, "close") <= 1
    /\ (Terminated /\ OpenDidSucceed) =>
          (Count(calls, "close") = 1 /\ ~handleOpen)

\* C7: a diagnostic message reaches standard error iff the open failed or
\* the query failed: when main has returned, exactly one message (the one
\* of that path) on each of these two paths and no output when the query
\* returned a non-negative value.
C7_DiagnosticIffFailure ==
    /\ Len(stderr) <= 1
    /\ Done =>
        /\ OpenDidFail => stderr = <<Whole(MsgOpen)>>
        /\ (OpenDidSucceed /\ ioctlRes < 0) => stderr = <<Whole(MsgQuery)>>
        /\ (OpenDidSucceed /\ ioctlRes >= 0) => stderr = <<>>

\* C8: for every value r the query returns after a successful open the exit
\* status main returns is 0 iff r > 0 and 1 iff r <= 0; a positive r other
\* than 1 counts as supported, and the status is always 0 or 1.
C8_StatusBySignOfResult ==
    (Done /\ OpenDidSucceed /\ QueryIssued) =>
        /\ status \in {0, 1}
        /\ (status = 0) <=> (ioctlRes > 0)
        /\ (status = 1) <=> (ioctlRes <= 0)

C8_Witness ==
    Done /\ OpenDidSucceed /\ QueryIssued /\ ioctlRes > 1 /\ status = 0

\* C9: the calls happen in a fixed order: open first, the query at most
\* once and only while the handle is open, close after the query; the exit
\* status is set only after close and does not depend on the result of
\* close; every execution terminates after at most these three calls.
C9_OrderInv ==
    /\ Len(calls) <= 3
    /\ \A i \in DOMAIN calls : calls[i] = CallOrder[i]
    /\ (pc # "done") => status = 0
    /\ (Done /\ OpenDidSucceed) =>
          /\ calls = CallOrder
          /\ status = IF ioctlRes > 0 THEN 0 ELSE 1
    /\ (Done /\ OpenDidFail) => calls = <<"open">>

C9_QueryWhileOpen ==
    (Count(calls', "ioctl") > Count(calls, "ioctl")) =>
        (handleOpen /\ handleOpen' /\ Count(calls, "close") = 0)

C9_FixedCallOrder ==
    /\ []C9_OrderInv
    /\ [][C9_QueryWhileOpen]_vars
    /\ <>Terminated

C9_Witness ==
    /\ Done /\ OpenDidSucceed /\ calls = CallOrder
    /\ closeRes = -1 /\ ioctlRes = 1 /\ status = 0

\* C10: when the open fails with error code e, the status the parent
\* observes is the low 8 bits of -e, (256 - e) mod 256: nonzero for every e
\* in 1..255 and different from 1 for every e in 1..254.
C10_ObservedStatusDistinct ==
    (Done /\ OpenDidFail /\ openErrno \in 1..255) =>
        /\ ObservedStatus(status) = (256 - openErrno) % 256
        /\ ObservedStatus(status) # 0
        /\ (openErrno \in 1..254) => ObservedStatus(status) # 1

====
